---- MODULE Spec2Model ----
(***************************************************************************)
(* A model of src/relay/transforms/dynamic_to_static.cc: the rewrite rules *)
(* of DynamicToStaticMutator (Rewrite_, DispatchVisitExpr) and the driver  *)
(* loop DynamicToStatic, over a heap of immutable, shared expression nodes *)
(* whose identity is their address.                                        *)
(***************************************************************************)
EXTENDS Integers, Sequences, FiniteSets, TLC

\* Longest constant vector and highest constant rank of the generated inputs.
MaxLen == 2
MaxRank == 2

\* The round cap of the driver loop, `i < 1000`.
MaxRounds == 1000

Null == "null"

\* A call with no attributes.
NoAttrs == [type |-> Null]

(***************************************************************************)
(* Expression model.  A node is a record; the heap maps addresses to nodes.*)
(***************************************************************************)
Var(name) == [kind |-> "Var", name |-> name]

Constant(data) == [kind |-> "Constant", data |-> data]

Call(op, args, attrs) ==
  [kind |-> "Call", op |-> op, args |-> args, attrs |-> attrs, type_args |-> <<>>]

Function(params, body, ret_type, type_params, attrs) ==
  [kind |-> "Function", params |-> params, body |-> body, ret_type |-> ret_type,
   type_params |-> type_params, attrs |-> attrs]

ReshapeAttrs(newshape, reverse) ==
  [type |-> "ReshapeAttrs", newshape |-> newshape, reverse |-> reverse]

TileAttrs(reps) == [type |-> "TileAttrs", reps |-> reps]

TopKAttrs(k, axis, ret_type, is_ascend, dtype) ==
  [type |-> "TopKAttrs", k |-> k, axis |-> axis, ret_type |-> ret_type,
   is_ascend |-> is_ascend, dtype |-> dtype]

\* The operators the mutator binds at construction.
dyn_reshape_op_ == "dyn.reshape"
dyn_tile_op_ == "dyn.tile"
dyn_topk_op_ == "dyn.topk"

\* An NDArray: its rank, its shape and its elements in row-major order.
NDArray(ndim, shape, vals) == [ndim |-> ndim, shape |-> shape, vals |-> vals]

\* The smallest free address: a freed address may be handed out again.
FreshId(h) ==
  CHOOSE id \in 1..(Cardinality(DOMAIN h) + 1) :
    /\ id \notin DOMAIN h
    /\ \A j \in 1..(id - 1) : j \in DOMAIN h

Children(n) ==
  CASE n.kind = "Call" -> {n.args[j] : j \in 1..Len(n.args)}
    [] n.kind = "Function" -> {n.params[j] : j \in 1..Len(n.params)} \cup {n.body}
    [] OTHER -> {}

RECURSIVE Reach(_, _)
Reach(h, ids) ==
  LET more == ids \cup UNION {Children(h[id]) : id \in ids}
  IN IF more = ids THEN ids ELSE Reach(h, more)

\* Reference counting: a node no live reference leads to is freed.
Collect(h, roots) == [id \in Reach(h, roots \cap DOMAIN h) |-> h[id]]

(***************************************************************************)
(* pattern_util.h: element-wise reads of a constant tensor.                *)
(***************************************************************************)
\* ToScalar(array, i): element i (0-based) of the array's buffer.
ToScalar(array, i) == array.vals[i + 1]

\* ToVector(array): the elements of a rank-1 array, in order.
ToVector(array) == [j \in 1..array.shape[1] |-> ToScalar(array, j - 1)]

(***************************************************************************)
(* DynamicToStaticMutator::Rewrite_.  The result is the rewritten node (0 *)
(* if a CHECK failed), the heap with what was allocated, the fatal error   *)
(* and what was written to std::cout.                                      *)
(***************************************************************************)
Rewritten(h, res, out) == [heap |-> h, res |-> res, err |-> Null, out |-> out]

\* A failed CHECK: the pass is left by an exception and nothing is returned.
Fatal(h, msg) == [heap |-> h, res |-> 0, err |-> msg, out |-> <<>>]

\* Call(op, args, attrs, {}): a newly allocated call node.
NewCall(h, op, args, attrs, out) ==
  Rewritten(h @@ (FreshId(h) :> Call(op, args, attrs)), FreshId(h), out)

\* ReshapeRule with the shape argument left in the argument list.
ReshapeRuleKeepsArg(h, post) ==
  LET call_node == h[post]
      shape == h[call_node.args[2]]
  IN IF shape.kind = "Constant"
     THEN IF shape.data.ndim # 1
          THEN Fatal(h, "Check failed: shape->data->ndim == 1")
          ELSE NewCall(h, "reshape", call_node.args,
                       ReshapeAttrs(ToVector(shape.data), FALSE), <<>>)
     ELSE Rewritten(h, post, <<>>)

\* ReshapeRule firing whether or not argument 1 is a Constant.
ReshapeRuleAlwaysFires(h, post) ==
  NewCall(h, "reshape", <<h[post].args[1]>>, ReshapeAttrs(<<>>, FALSE), <<>>)

\* ReshapeRule with no CHECK_EQ: a constant of another rank is passed over.
ReshapeRuleNoRankCheck(h, post) ==
  LET call_node == h[post]
      shape == h[call_node.args[2]]
  IN IF shape.kind = "Constant" /\ shape.data.ndim = 1
     THEN NewCall(h, "reshape", <<call_node.args[1]>>,
                  ReshapeAttrs(ToVector(shape.data), FALSE), <<>>)
     ELSE Rewritten(h, post, <<>>)

\* Lines 45-52: the rule of dyn.reshape.
ReshapeRule(h, post) ==
  LET call_node == h[post]
      shape == h[call_node.args[2]]
  IN IF shape.kind = "Constant"
     THEN IF shape.data.ndim # 1
          THEN Fatal(h, "Check failed: shape->data->ndim == 1")
          ELSE NewCall(h, "reshape", <<call_node.args[1]>>,
                       ReshapeAttrs(ToVector(shape.data), FALSE), <<>>)
     ELSE Rewritten(h, post, <<>>)

\* TileRule keeping argument 1, the constant, in place of argument 0.
TileRuleKeepsParam(h, post) ==
  LET call_node == h[post]
      reps == h[call_node.args[2]]
  IN IF reps.kind = "Constant"
     THEN IF reps.data.ndim # 1
          THEN Fatal(h, "Check failed: reps->data->ndim == 1")
          ELSE NewCall(h, "tile", <<call_node.args[2]>>,
                       TileAttrs(ToVector(reps.data)), <<>>)
     ELSE Rewritten(h, post, <<>>)

\* Lines 54-60: the rule of dyn.tile.
TileRule(h, post) ==
  LET call_node == h[post]
      reps == h[call_node.args[2]]
  IN IF reps.kind = "Constant"
     THEN IF reps.data.ndim # 1
          THEN Fatal(h, "Check failed: reps->data->ndim == 1")
          ELSE NewCall(h, "tile", <<call_node.args[1]>>,
                       TileAttrs(ToVector(reps.data)), <<>>)
     ELSE Rewritten(h, post, <<>>)

\* TopKRule with is_ascend left at its default.
TopKRuleDropsAscend(h, post) ==
  LET call_node == h[post]
      k == h[call_node.args[2]]
      param == call_node.attrs
  IN IF k.kind = "Constant"
     THEN IF param.type # "TopKAttrs"
          THEN Fatal(h, "Check failed: param")
          ELSE NewCall(h, "topk", <<call_node.args[1]>>,
                       TopKAttrs(ToScalar(k.data, 0), param.axis, param.ret_type,
                                 FALSE, param.dtype),
                       <<ToScalar(k.data, 0)>>)
     ELSE Rewritten(h, post, <<>>)

\* TopKRule with axis left at its default, -1.
TopKRuleDefaultsAxis(h, post) ==
  LET call_node == h[post]
      k == h[call_node.args[2]]
      param == call_node.attrs
  IN IF k.kind = "Constant"
     THEN IF param.type # "TopKAttrs"
          THEN Fatal(h, "Check failed: param")
          ELSE NewCall(h, "topk", <<call_node.args[1]>>,
                       TopKAttrs(ToScalar(k.data, 0), -1, param.ret_type,
                                 param.is_ascend, param.dtype),
                       <<ToScalar(k.data, 0)>>)
     ELSE Rewritten(h, post, <<>>)

\* Lines 62-74: the rule of dyn.topk; k is written to std::cout.
TopKRule(h, post) ==
  LET call_node == h[post]
      k == h[call_node.args[2]]
      param == call_node.attrs
  IN IF k.kind = "Constant"
     THEN IF param.type # "TopKAttrs"
          THEN Fatal(h, "Check failed: param")
          ELSE NewCall(h, "topk", <<call_node.args[1]>>,
                       TopKAttrs(ToScalar(k.data, 0), param.axis, param.ret_type,
                                 param.is_ascend, param.dtype),
                       <<ToScalar(k.data, 0)>>)
     ELSE Rewritten(h, post, <<>>)

\* Rewrite_ applying the rules to pre, the call before its arguments were
\* rewritten, in place of post.
Rewrite_OfPre(h, pre, post) ==
  CASE h[pre].op = dyn_reshape_op_ -> ReshapeRule(h, pre)
    [] h[pre].op = dyn_tile_op_ -> TileRule(h, pre)
    [] h[pre].op = dyn_topk_op_ -> TopKRule(h, pre)
    [] OTHER -> Rewritten(h, post, <<>>)

Rewrite_(h, pre, post) ==
  CASE h[post].op = dyn_reshape_op_ -> ReshapeRule(h, post)
    [] h[post].op = dyn_tile_op_ -> TileRule(h, post)
    [] h[post].op = dyn_topk_op_ -> TopKRule(h, post)
    [] OTHER -> Rewritten(h, post, <<>>)

(***************************************************************************)
(* The mutation engine (MixedModeMutator and ExprMutator of                *)
(* expr_functor.cc): a memoized post-order rewrite.  A pass state holds the*)
(* heap, the memo table, the fatal error that ended the pass if any, the   *)
(* calls of Rewrite_ in order (log), the Function nodes rebuilt by         *)
(* DispatchVisitExpr (fnlog) and the text written to std::cout.            *)
(***************************************************************************)
PassState(h) ==
  [heap |-> h, memo |-> <<>>, err |-> Null, log |-> <<>>, fnlog |-> <<>>, out |-> <<>>]

Visited(st, res) == [st |-> st, res |-> res]

RECURSIVE VisitExpr(_, _), VisitAll(_, _, _), DispatchVisitExpr(_, _)

\* Visits ids[k], ids[k+1], ... in order; stops at a fatal error.
VisitAll(st, ids, k) ==
  IF k > Len(ids) \/ st.err # Null THEN st
  ELSE VisitAll(VisitExpr(st, ids[k]), ids, k + 1)

\* The call e with its arguments visited (pass state s1): rebuilt only if
\* one of them changed, then handed to Rewrite_(pre, post).
RewriteCall(s1, e, post, r) ==
  Visited([s1 EXCEPT !.heap = r.heap, !.err = r.err, !.out = @ \o r.out,
                     !.log = Append(@, [pre |-> e, post |-> post, res |-> r.res])],
          r.res)

RebuildCall(s1, e, newargs) ==
  IF newargs = s1.heap[e].args
  THEN RewriteCall(s1, e, e, Rewrite_(s1.heap, e, e))
  ELSE RewriteCall(s1, e, FreshId(s1.heap),
                   Rewrite_(s1.heap @@ (FreshId(s1.heap) :> [s1.heap[e] EXCEPT !.args = newargs]),
                            e, FreshId(s1.heap)))

VisitedCall(s1, e) ==
  IF s1.err # Null THEN Visited(s1, e)
  ELSE RebuildCall(s1, e, [j \in 1..Len(s1.heap[e].args) |-> s1.memo[s1.heap[e].args[j]]])

\* MixedModeMutator::VisitExpr_(CallNode): the arguments first.
VisitCall(st, e) == VisitedCall(VisitAll(st, st.heap[e].args, 1), e)

\* The function e with its parameters and body visited (pass state s1):
\* rebuilt only if one of them changed.
RebuildFunction(s1, e, newparams, newbody) ==
  IF newparams = s1.heap[e].params /\ newbody = s1.heap[e].body THEN Visited(s1, e)
  ELSE Visited([s1 EXCEPT !.heap = @ @@ (FreshId(s1.heap) :>
                                           [s1.heap[e] EXCEPT !.params = newparams,
                                                              !.body = newbody])],
               FreshId(s1.heap))

VisitedFunction(s1, e) ==
  IF s1.err # Null THEN Visited(s1, e)
  ELSE RebuildFunction(s1, e,
                       [j \in 1..Len(s1.heap[e].params) |-> s1.memo[s1.heap[e].params[j]]],
                       s1.memo[s1.heap[e].body])

\* ExprMutator::VisitExpr_(FunctionNode): the parameters, then the body.
VisitFunction(st, e) ==
  VisitedFunction(VisitAll(st, st.heap[e].params \o <<st.heap[e].body>>, 1), e)

\* MixedModeMutator::DispatchVisitExpr: the dispatch on the node's kind.
MixedModeMutator_DispatchVisitExpr(st, e) ==
  CASE st.heap[e].kind = "Call" -> VisitCall(st, e)
    [] st.heap[e].kind = "Function" -> VisitFunction(st, e)
    [] OTHER -> Visited(st, e)

\* DispatchVisitExpr without the FunctionNode branch.
ClearRetTypeSkipped(r, expr) == r

\* ClearRetType building a Function anew only if it declares a return type.
ClearRetTypeIfDeclared(r, expr) ==
  LET post == r.res
      op == r.st.heap[post]
      id == FreshId(r.st.heap)
  IN IF r.st.err # Null THEN r
     ELSE IF op.kind = "Function" /\ op.ret_type # Null
     THEN Visited([r.st EXCEPT
                     !.heap = @ @@ (id :> Function(op.params, op.body, Null,
                                                   op.type_params, op.attrs)),
                     !.fnlog = Append(@, [pre |-> expr, post |-> post, res |-> id])],
                  id)
     ELSE r

\* Lines 80-83: a Function that comes back from the base dispatch (r) is
\* built anew without its return type; any other node is returned as it is.
ClearRetType(r, expr) ==
  LET post == r.res
      op == r.st.heap[post]
      id == FreshId(r.st.heap)
  IN IF r.st.err # Null THEN r
     ELSE IF op.kind = "Function"
     THEN Visited([r.st EXCEPT
                     !.heap = @ @@ (id :> Function(op.params, op.body, Null,
                                                   op.type_params, op.attrs)),
                     !.fnlog = Append(@, [pre |-> expr, post |-> post, res |-> id])],
                  id)
     ELSE r

\* DynamicToStaticMutator::DispatchVisitExpr.
DispatchVisitExpr(st, expr) ==
  ClearRetType(MixedModeMutator_DispatchVisitExpr(st, expr), expr)

Memoize(r, e) ==
  IF r.st.err # Null THEN r.st ELSE [r.st EXCEPT !.memo = @ @@ (e :> r.res)]

\* VisitExpr with no look at the memo table: a node is visited once for
\* each reference to it.
VisitExprEveryReference(st, e) ==
  IF st.err # Null THEN st ELSE Memoize(DispatchVisitExpr(st, e), e)

\* MixedModeMutator::VisitLeaf: a node already in the memo table is not
\* visited again.
VisitExpr(st, e) ==
  IF st.err # Null \/ e \in DOMAIN st.memo THEN st
  ELSE Memoize(DispatchVisitExpr(st, e), e)

\* DynamicToStaticMutator().Mutate(e): a pass with a fresh mutator.
Mutate(h, e) == VisitExpr(PassState(h), e)

(***************************************************************************)
(* The collaborators the driver calls: whole-module constant folding and   *)
(* whole-module type inference, each a function from a module to a new     *)
(* module.  A module maps global variables to the addresses of functions.  *)
(***************************************************************************)
GlobalVars == <<"f", "g">>

RECURSIVE FoldExpr(_, _), FoldAll(_, _, _)

FoldAll(st, ids, k) ==
  IF k > Len(ids) THEN st ELSE FoldAll(FoldExpr(st, ids[k]), ids, k + 1)

Folded(s1, e, node) ==
  IF node = s1.heap[e] THEN [s1 EXCEPT !.memo = @ @@ (e :> e)]
  ELSE [s1 EXCEPT !.heap = @ @@ (FreshId(s1.heap) :> node),
                  !.memo = @ @@ (e :> FreshId(s1.heap))]

\* A call of "copy" whose argument is a Constant is evaluated into a new
\* Constant holding the same tensor.
FoldedCall(s1, e, newargs) ==
  IF s1.heap[e].op = "copy" /\ s1.heap[newargs[1]].kind = "Constant"
  THEN Folded(s1, e, Constant(s1.heap[newargs[1]].data))
  ELSE Folded(s1, e, [s1.heap[e] EXCEPT !.args = newargs])

FoldedChildren(s1, e) ==
  IF s1.heap[e].kind = "Call"
  THEN FoldedCall(s1, e, [j \in 1..Len(s1.heap[e].args) |-> s1.memo[s1.heap[e].args[j]]])
  ELSE Folded(s1, e, [s1.heap[e] EXCEPT !.body = s1.memo[s1.heap[e].body]])

\* ConstantFolder: the children first; a node is rebuilt only if a child
\* changed or it was evaluated.
FoldExpr(st, e) ==
  IF e \in DOMAIN st.memo THEN st
  ELSE CASE st.heap[e].kind = "Call" -> FoldedChildren(FoldAll(st, st.heap[e].args, 1), e)
         [] st.heap[e].kind = "Function" ->
              FoldedChildren(FoldExpr(st, st.heap[e].body), e)
         [] OTHER -> [st EXCEPT !.memo = @ @@ (e :> e)]

PassResult(h, fs) == [heap |-> h, functions |-> fs]

\* IRModuleNode::Update(var, func): the functions fs with func bound to var
\* and every other binding as it was.
IRModuleNode_Update(fs, var, func) == [fs EXCEPT ![var] = func]

FoldedModule(st, fs) == PassResult(st.heap, [g \in DOMAIN fs |-> st.memo[fs[g]]])

RECURSIVE FoldFunctions(_, _, _)

\* The functions of module fs folded one after the other, in the order of
\* GlobalVars.
FoldFunctions(st, fs, k) ==
  IF k > Len(GlobalVars) THEN st
  ELSE IF GlobalVars[k] \in DOMAIN fs
  THEN FoldFunctions(FoldExpr(st, fs[GlobalVars[k]]), fs, k + 1)
  ELSE FoldFunctions(st, fs, k + 1)

\* transform::FoldConstant() applied to a module: every function folded.
fold_const(h, fs) == FoldedModule(FoldFunctions([heap |-> h, memo |-> <<>>], fs, 1), fs)

\* Type inference of the function bound to g, if any: a function with no
\* declared return type is built anew with the inferred one.
InferFunction(r, g) ==
  LET fn == r.heap[r.functions[g]]
      id == FreshId(r.heap)
  IN IF g \notin DOMAIN r.functions THEN r
     ELSE IF fn.ret_type # Null THEN r
     ELSE PassResult(r.heap @@ (id :> [fn EXCEPT !.ret_type = "Ty"]),
                     [r.functions EXCEPT ![g] = id])

RECURSIVE InferAll(_, _)

InferAll(r, k) ==
  IF k > Len(GlobalVars) THEN r ELSE InferAll(InferFunction(r, GlobalVars[k]), k + 1)

\* transform::InferType() applied to a module.
infer_type(h, fs) == InferAll(PassResult(h, fs), 1)

(***************************************************************************)
(* The inputs: a function f over small constant tensors, in a module that  *)
(* also holds a function g.                                                *)
(***************************************************************************)
\* Element j of a generated tensor: 2, 3, 2, ...
Elem(j) == 2 + ((j - 1) % 2)

Scalar == NDArray(0, <<>>, <<Elem(1)>>)

\* A tensor of rank r >= 1 and n elements, of shape (1, ..., 1, n).
Tensor(r, n) ==
  NDArray(r, [j \in 1..r |-> IF j = r THEN n ELSE 1], [j \in 1..n |-> Elem(j)])

Tensors ==
  {Scalar} \cup {Tensor(1, n) : n \in 1..MaxLen} \cup {Tensor(r, MaxLen) : r \in 2..MaxRank}

DynOps == {dyn_reshape_op_, dyn_tile_op_, dyn_topk_op_}

\* The attributes a dynamic call is built with.
DynAttrs(op) ==
  CASE op = dyn_reshape_op_ -> ReshapeAttrs(<<>>, FALSE)
    [] op = dyn_tile_op_ -> TileAttrs(<<>>)
    [] op = dyn_topk_op_ -> TopKAttrs(0, 1, "values", TRUE, "int64")
    [] OTHER -> NoAttrs

Program(nodes, fn, fs) ==
  [heap |-> [id \in 1..Len(nodes) |-> nodes[id]], f |-> fn, functions |-> fs]

\* g(y) = y
G(y) == Function(<<y>>, y, "Ty", <<>>, NoAttrs)

\* f(x, ...) = op(x, p), with p a runtime variable or a constant.
Single(op, p, rt) ==
  Program(<<Var("x"), p, Call(op, <<1, 2>>, DynAttrs(op)),
            Function(IF p.kind = "Var" THEN <<1, 2>> ELSE <<1>>, 3, rt, <<>>, NoAttrs),
            Var("y"), G(5)>>,
          4, ("f" :> 4) @@ ("g" :> 6))

\* f(x) = op(x, copy(c)): the parameter is constant only once folded.
Foldable(op, t, rt) ==
  Program(<<Var("x"), Constant(t), Call("copy", <<2>>, NoAttrs),
            Call(op, <<1, 3>>, DynAttrs(op)),
            Function(<<1>>, 4, rt, <<>>, NoAttrs), Var("y"), G(6)>>,
          5, ("f" :> 5) @@ ("g" :> 7))

\* f(x) = reshape(x), already static.
Static ==
  Program(<<Var("x"), Call("reshape", <<1>>, ReshapeAttrs(Tensor(1, MaxLen).vals, FALSE)),
            Function(<<1>>, 2, "Ty", <<>>, NoAttrs), Var("y"), G(4)>>,
          3, ("f" :> 3) @@ ("g" :> 5))

\* f(x) = dyn.tile(dyn.reshape(x, c), c'): a rule target inside another.
Nested ==
  Program(<<Var("x"), Constant(Tensor(1, MaxLen)), Constant(Tensor(1, 1)),
            Call(dyn_reshape_op_, <<1, 2>>, DynAttrs(dyn_reshape_op_)),
            Call(dyn_tile_op_, <<4, 3>>, DynAttrs(dyn_tile_op_)),
            Function(<<1>>, 5, "Ty", <<>>, NoAttrs), Var("y"), G(7)>>,
          6, ("f" :> 6) @@ ("g" :> 8))

\* f(x) = add(c, c) with c = dyn.reshape(x, shape): a call with two parents.
Shared ==
  Program(<<Var("x"), Constant(Tensor(1, MaxLen)),
            Call(dyn_reshape_op_, <<1, 2>>, DynAttrs(dyn_reshape_op_)),
            Call("add", <<3, 3>>, NoAttrs),
            Function(<<1>>, 4, Null, <<>>, NoAttrs), Var("y"), G(6)>>,
          5, ("f" :> 5) @@ ("g" :> 7))

\* f(x) = fn(z) { dyn.topk(z, k) }: a function inside the function.
Closure ==
  Program(<<Var("x"), Var("z"), Constant(Scalar),
            Call(dyn_topk_op_, <<2, 3>>, DynAttrs(dyn_topk_op_)),
            Function(<<2>>, 4, "Ty", <<>>, NoAttrs),
            Function(<<1>>, 5, "Ty", <<>>, NoAttrs), Var("y"), G(7)>>,
          6, ("f" :> 6) @@ ("g" :> 8))

\* f(x) = x, a function the module does not hold.
Unbound == Program(<<Var("x"), Function(<<1>>, 1, "Ty", <<>>, NoAttrs), Var("y"), G(3)>>,
                   2, ("g" :> 4))

\* f(x) = op(x, c), a call built with no attributes.
Bare(op) ==
  Program(<<Var("x"), Constant(Tensor(1, MaxLen)), Call(op, <<1, 2>>, NoAttrs),
            Function(<<1>>, 3, "Ty", <<>>, NoAttrs), Var("y"), G(5)>>,
          4, ("f" :> 4) @@ ("g" :> 6))

\* f(x) = dyn.topk(x, k) with every option at the value the attributes
\* default to.
Descending ==
  Program(<<Var("x"), Constant(Scalar),
            Call(dyn_topk_op_, <<1, 2>>, TopKAttrs(0, -1, "both", FALSE, "float32")),
            Function(<<1>>, 3, "Ty", <<>>, NoAttrs), Var("y"), G(5)>>,
          4, ("f" :> 4) @@ ("g" :> 6))

\* f(x) = add(relu(c), c) with c = dyn.tile(x, reps): a call with two
\* different parents.
Diamond ==
  Program(<<Var("x"), Constant(Tensor(1, MaxLen)),
            Call(dyn_tile_op_, <<1, 2>>, DynAttrs(dyn_tile_op_)),
            Call("relu", <<3>>, NoAttrs), Call("add", <<4, 3>>, NoAttrs),
            Function(<<1>>, 5, "Ty", <<>>, NoAttrs), Var("y"), G(7)>>,
          6, ("f" :> 6) @@ ("g" :> 8))

Programs ==
  {Single(op, Constant(t), "Ty") : op \in DynOps, t \in Tensors}
    \cup {Single(op, Var("s"), rt) : op \in DynOps \cup {"add"}, rt \in {Null, "Ty"}}
    \cup {Foldable(op, Tensor(1, MaxLen), Null) : op \in DynOps}
    \cup {Bare(op) : op \in DynOps}
    \cup {Static, Nested, Shared, Closure, Unbound, Descending, Diamond}

(***************************************************************************)
(* The driver, DynamicToStatic(f, m), one action per statement of its loop.*)
(***************************************************************************)
VARIABLES heap, modules, mod, m, f, gv, pre, expr, i, pc, err, ret,
          memo, log, fnlog, stdout, cnt

vars == <<heap, modules, mod, m, f, gv, pre, expr, i, pc, err, ret,
          memo, log, fnlog, stdout, cnt>>

Init ==
  \E p \in Programs :
    /\ heap = p.heap
    /\ modules = (1 :> p.functions)
    /\ mod = 1
    /\ m = 1
    /\ f = p.f
    /\ gv = Null
    /\ pre = p.f
    /\ expr = p.f
    /\ i = 0
    /\ pc = "entry"
    /\ err = Null
    /\ ret = 0
    /\ memo = <<>>
    /\ log = <<>>
    /\ fnlog = <<>>
    /\ stdout = <<>>
    /\ cnt = [infer |-> 0, fold |-> 0, mutate |-> 0, update |-> 0]

\* The nodes the driver, its caller and the modules hold a reference to,
\* with those the record of the last pass names.
Roots(mods, ids, mm, lg, fl) ==
  ids \cup UNION {{mods[k][g] : g \in DOMAIN mods[k]} : k \in DOMAIN mods}
      \cup DOMAIN mm \cup {mm[e] : e \in DOMAIN mm}
      \cup UNION {{lg[j].pre, lg[j].post, lg[j].res} : j \in 1..Len(lg)}
      \cup UNION {{fl[j].pre, fl[j].post, fl[j].res} : j \in 1..Len(fl)}

\* The module a pass returns is a new object; the one it was given lives on
\* only if the caller holds it.
NewModule == IF m = mod THEN 2 ELSE 5 - m

\* Lines 96-100: vars maps each function of m to a global variable bound to
\* it; vars[f] fails if f is bound to none.
Start ==
  /\ pc = "entry"
  /\ \/ \E g \in DOMAIN modules[m] :
          /\ modules[m][g] = f
          /\ gv' = g
          /\ pc' = "infer"
          /\ err' = Null
     \/ /\ \A g \in DOMAIN modules[m] : modules[m][g] # f
        /\ gv' = Null
        /\ pc' = "failed"
        /\ err' = "KeyError"
  /\ UNCHANGED <<heap, modules, mod, m, f, pre, expr, i, ret, memo, log, fnlog, stdout, cnt>>

\* The modules alive once a pass has returned the functions fs.
Passed(fs) == [k \in {mod, NewModule} |-> IF k = NewModule THEN fs ELSE modules[k]]

Inferred(r) ==
  /\ pre' = expr
  /\ modules' = Passed(r.functions)
  /\ m' = NewModule
  /\ memo' = <<>>
  /\ log' = <<>>
  /\ fnlog' = <<>>
  /\ heap' = Collect(r.heap, Roots(Passed(r.functions), {f, expr}, <<>>, <<>>, <<>>))
  /\ cnt' = [cnt EXCEPT !.infer = @ + 1]
  /\ pc' = "fold"
  /\ UNCHANGED <<mod, f, gv, expr, i, err, ret, stdout>>

\* Lines 103, 105: pre = expr; m = infer_type(m), which succeeded.
InferOk == pc = "infer" /\ Inferred(infer_type(heap, modules[m]))

\* InferFail with the error caught: the round goes on.
InferFailSwallowed ==
  /\ pc = "infer"
  /\ pre' = expr
  /\ cnt' = [cnt EXCEPT !.infer = @ + 1]
  /\ pc' = "fold"
  /\ err' = "TypeError"
  /\ UNCHANGED <<heap, modules, mod, m, f, gv, expr, i, ret, memo, log, fnlog, stdout>>

\* Lines 103, 105: infer_type(m) raised a type error, which leaves the driver.
InferFail ==
  /\ pc = "infer"
  /\ pre' = expr
  /\ cnt' = [cnt EXCEPT !.infer = @ + 1]
  /\ pc' = "failed"
  /\ err' = "TypeError"
  /\ UNCHANGED <<heap, modules, mod, m, f, gv, expr, i, ret, memo, log, fnlog, stdout>>

FoldedTo(r) ==
  /\ modules' = Passed(r.functions)
  /\ m' = NewModule
  /\ heap' = Collect(r.heap, Roots(Passed(r.functions), {f, pre, expr}, memo, log, fnlog))
  /\ cnt' = [cnt EXCEPT !.fold = @ + 1]
  /\ pc' = "mutate"
  /\ UNCHANGED <<mod, f, gv, pre, expr, i, err, ret, memo, log, fnlog, stdout>>

\* FoldOk with the folded module dropped: the pass sees the module as it was.
FoldOkKeepsModule ==
  /\ pc = "fold"
  /\ cnt' = [cnt EXCEPT !.fold = @ + 1]
  /\ pc' = "mutate"
  /\ UNCHANGED <<heap, modules, mod, m, f, gv, pre, expr, i, err, ret, memo, log, fnlog, stdout>>

\* Line 106: m = fold_const(m), which succeeded.
FoldOk == pc = "fold" /\ FoldedTo(fold_const(heap, modules[m]))

\* Line 106: fold_const(m) raised an error, which leaves the driver.
FoldFail ==
  /\ pc = "fold"
  /\ cnt' = [cnt EXCEPT !.fold = @ + 1]
  /\ pc' = "failed"
  /\ err' = "FoldError"
  /\ UNCHANGED <<heap, modules, mod, m, f, gv, pre, expr, i, ret, memo, log, fnlog, stdout>>

Mutated(st, new) ==
  /\ expr' = new
  /\ memo' = st.memo
  /\ log' = st.log
  /\ fnlog' = st.fnlog
  /\ stdout' = stdout \o st.out
  /\ heap' = Collect(st.heap, Roots(modules, {f, pre, new}, st.memo, st.log, st.fnlog))
  /\ cnt' = [cnt EXCEPT !.mutate = @ + 1]
  /\ pc' = IF st.err = Null THEN "update" ELSE "failed"
  /\ err' = st.err
  /\ UNCHANGED <<modules, mod, m, f, gv, pre, i, ret>>

MutatedTo(st) == Mutated(st, IF st.err = Null THEN st.memo[modules[m][gv]] ELSE expr)

\* Line 107: expr = DynamicToStaticMutator().Mutate(m->functions[gv]); a
\* failed CHECK ends the pass and leaves the driver.
MutateStep == pc = "mutate" /\ MutatedTo(Mutate(heap, modules[m][gv]))

\* Continue with the cap tested too late: `i <= 1000`.
ContinueOffByOne(p, e, n) == p # e /\ n <= MaxRounds

\* Line 110: the loop goes on while the result is a new node and the cap is
\* not reached.
Continue(p, e, n) == p # e /\ n < MaxRounds

\* Update with the write-back under another identifier of the module.
UpdateWrongVar ==
  LET other == CHOOSE g \in DOMAIN modules[m] : g # gv
      mods == [modules EXCEPT ![m] = IRModuleNode_Update(@, other, expr)]
      again == Continue(pre, expr, i + 1)
  IN /\ pc = "update"
     /\ modules' = mods
     /\ i' = i + 1
     /\ cnt' = [cnt EXCEPT !.update = @ + 1]
     /\ pc' = IF again THEN "infer" ELSE "done"
     /\ ret' = IF again THEN 0 ELSE expr
     /\ heap' = Collect(heap, Roots(mods, {f, pre, expr}, memo, log, fnlog))
     /\ UNCHANGED <<mod, m, f, gv, pre, expr, err, memo, log, fnlog, stdout>>

\* Update returning pre, the result of the round before, in place of expr.
UpdateReturnsPre ==
  LET mods == [modules EXCEPT ![m] = IRModuleNode_Update(@, gv, expr)]
      again == Continue(pre, expr, i + 1)
  IN /\ pc = "update"
     /\ modules' = mods
     /\ i' = i + 1
     /\ cnt' = [cnt EXCEPT !.update = @ + 1]
     /\ pc' = IF again THEN "infer" ELSE "done"
     /\ ret' = IF again THEN 0 ELSE pre
     /\ heap' = Collect(heap, Roots(mods, {f, pre, expr}, memo, log, fnlog))
     /\ UNCHANGED <<mod, m, f, gv, pre, expr, err, memo, log, fnlog, stdout>>

\* Lines 108-111: m->Update(gv, expr); i += 1; the loop test; return expr.
Update ==
  LET mods == [modules EXCEPT ![m] = IRModuleNode_Update(@, gv, expr)]
      again == Continue(pre, expr, i + 1)
  IN /\ pc = "update"
     /\ modules' = mods
     /\ i' = i + 1
     /\ cnt' = [cnt EXCEPT !.update = @ + 1]
     /\ pc' = IF again THEN "infer" ELSE "done"
     /\ ret' = IF again THEN 0 ELSE expr
     /\ heap' = Collect(heap, Roots(mods, {f, pre, expr}, memo, log, fnlog))
     /\ UNCHANGED <<mod, m, f, gv, pre, expr, err, memo, log, fnlog, stdout>>

Next == Start \/ InferOk \/ InferFail \/ FoldOk \/ FoldFail \/ MutateStep \/ Update

Spec == Init /\ [][Next]_vars

(***************************************************************************)
(* Properties.                                                             *)
(***************************************************************************)
\* The nodes of the graph under node e.
Graph(e) == Reach(heap, {e})

IsCall(id) == heap[id].kind = "Call"

\* A call of a rule target whose argument 1 is a Constant.
Eligible(id) ==
  /\ IsCall(id)
  /\ heap[id].op \in DynOps
  /\ heap[heap[id].args[2]].kind = "Constant"

\* A call constant folding evaluates.
CanFold(id) ==
  IsCall(id) /\ heap[id].op = "copy" /\ heap[heap[id].args[1]].kind = "Constant"

\* The function given to the driver is fully specialized: no rule can fire
\* in it and neither type inference nor constant folding changes it.
Specialized ==
  /\ heap[f].ret_type # Null
  /\ \A id \in Graph(f) : ~Eligible(id) /\ ~CanFold(id)

Once == [infer |-> 1, fold |-> 1, mutate |-> 1, update |-> 1]

\* C1: called on a fully specialized function, the driver returns after
\* exactly one round (one inference, one folding, one pass, one write-back)
\* and returns the function it was given.
C1_IdempotentInOneRound ==
  (Specialized /\ i >= 1) => (pc = "done" /\ i = 1 /\ cnt = Once /\ ret = f)

Terminated == pc \in {"done", "failed"}

\* The statements left to run: four per round below the cap.
Stage ==
  CASE pc = "entry" -> 5 [] pc = "infer" -> 4 [] pc = "fold" -> 3
    [] pc = "mutate" -> 2 [] pc = "update" -> 1 [] OTHER -> 0

Remaining == IF Terminated THEN 0 ELSE 4 * (MaxRounds - i) + Stage

\* C3: the driver terminates (every step lowers the number of statements
\* left to run, which is never negative), it never runs more rounds than the
\* cap, and a run whose result changed in every round returns, without an
\* error, the function of round 1000.
C3_BoundedTermination ==
  /\ [][Remaining' < Remaining]_vars
  /\ [](Remaining >= 0 /\ i <= MaxRounds /\ cnt.mutate <= MaxRounds)
  /\ []((pc = "done" /\ pre # expr) =>
          (i = MaxRounds /\ err = Null /\ ret = expr /\ heap[ret].kind = "Function"))

C3_Witness ==
  pc = "done" /\ pre # expr /\ i = MaxRounds /\ ret = expr /\ err = Null

\* A mutation pass ran in this round: it returned (the write-back is next)
\* or a CHECK failed in it.  The module still holds the function it was
\* applied to.
CollaboratorErrors == {"TypeError", "FoldError"}

PassRan == pc = "update" \/ (pc = "failed" /\ err \notin CollaboratorErrors \cup {"KeyError"})

PassInput == modules[m][gv]

\* The constant tensor that is argument 1 of an eligible call.
Param(id) == heap[heap[id].args[2]].data

SameElements(v, t) == Len(v) = t.shape[1] /\ \A j \in 1..Len(v) : v[j] = t.vals[j]

RankOne(id, op) == Eligible(id) /\ heap[id].op = op /\ Param(id).ndim = 1

\* C4: a pass replaces every dyn.reshape call whose argument 1 is a rank-1
\* Constant s by reshape([argument 0]) with newshape = s, element by
\* element, and reverse = false, every dyn.tile call with a rank-1 Constant
\* r by tile([argument 0]) with reps = r, and the function the pass returns
\* has no declared return type.
C4_ReshapeTileResult ==
  pc = "update" =>
    \A c \in Graph(PassInput) :
      /\ RankOne(c, dyn_reshape_op_) =>
           /\ heap[memo[c]].kind = "Call"
           /\ heap[memo[c]].op = "reshape"
           /\ heap[memo[c]].args = <<memo[heap[c].args[1]]>>
           /\ heap[memo[c]].attrs.type = "ReshapeAttrs"
           /\ SameElements(heap[memo[c]].attrs.newshape, Param(c))
           /\ heap[memo[c]].attrs.reverse = FALSE
           /\ memo[c] \in Graph(expr) /\ c \notin Graph(expr)
           /\ heap[expr].ret_type = Null
      /\ RankOne(c, dyn_tile_op_) =>
           /\ heap[memo[c]].kind = "Call"
           /\ heap[memo[c]].op = "tile"
           /\ heap[memo[c]].args = <<memo[heap[c].args[1]]>>
           /\ heap[memo[c]].attrs.type = "TileAttrs"
           /\ SameElements(heap[memo[c]].attrs.reps, Param(c))
           /\ memo[c] \in Graph(expr) /\ c \notin Graph(expr)
           /\ heap[expr].ret_type = Null

\* The literal shape [2, 3], in the first round, under a declared return type.
C4_Witness ==
  /\ pc = "update" /\ i = 0
  /\ heap[PassInput].ret_type # Null /\ heap[expr].ret_type = Null
  /\ \E c \in Graph(PassInput) :
       /\ RankOne(c, dyn_reshape_op_)
       /\ Param(c).vals = <<2, 3>>
       /\ heap[memo[c]].attrs.newshape = <<2, 3>>
       /\ heap[memo[c]].args = <<heap[c].args[1]>>

IsVar(id) == heap[id].kind = "Var"

\* No rule can ever fire in the function given to the driver.
NeverConstant == \A id \in Graph(f) : ~Eligible(id) /\ ~CanFold(id)

\* C5: Rewrite_ returns the call it is given when the operator is no rule
\* target or argument 1 is no Constant; such a call keeps its operator, its
\* attributes and its (rewritten) arguments in order, and is the same node
\* if no argument changed; a function in which no argument ever becomes a
\* Constant keeps its body through every round, and no error is raised.
C5_NonFiring ==
  /\ PassRan =>
       /\ \A j \in 1..Len(log) : ~Eligible(log[j].post) => log[j].res = log[j].post
       /\ \A c \in Graph(PassInput) \cap DOMAIN memo :
            (IsCall(c) /\ ~Eligible(c)) =>
              /\ heap[memo[c]].op = heap[c].op
              /\ heap[memo[c]].attrs = heap[c].attrs
              /\ heap[memo[c]].args = [j \in 1..Len(heap[c].args) |-> memo[heap[c].args[j]]]
              /\ (\A j \in 1..Len(heap[c].args) : memo[heap[c].args[j]] = heap[c].args[j])
                   => memo[c] = c
  /\ (NeverConstant /\ gv # Null) =>
       /\ heap[modules[m][gv]].body = heap[f].body
       /\ heap[expr].body = heap[f].body
       /\ err \in {Null} \cup CollaboratorErrors

\* A dynamic call on a runtime variable, after the last of the 1000 rounds.
C5_Witness ==
  /\ pc = "done" /\ i = MaxRounds
  /\ NeverConstant
  /\ heap[heap[ret].body].kind = "Call"
  /\ heap[heap[ret].body].op \in DynOps
  /\ IsVar(heap[heap[ret].body].args[2])
  /\ heap[ret].body = heap[f].body

RankChecks ==
  {"Check failed: shape->data->ndim == 1", "Check failed: reps->data->ndim == 1"}

\* A dyn.reshape or dyn.tile call whose argument 1 is a Constant not of rank 1.
BadRank(c) ==
  /\ Eligible(c)
  /\ heap[c].op \in {dyn_reshape_op_, dyn_tile_op_}
  /\ Param(c).ndim # 1

\* C6: a pass over a function that holds a dyn.reshape or dyn.tile call
\* whose argument 1 is a Constant of a rank other than 1 ends in a failed
\* CHECK: nothing is returned for that call, neither the call itself nor a
\* static call, and the driver returns nothing.
C6_RankRejected ==
  PassRan =>
    \A c \in Graph(PassInput) :
      BadRank(c) =>
        /\ pc = "failed"
        /\ err \in RankChecks
        /\ c \notin DOMAIN memo
        /\ \A j \in 1..Len(log) : log[j].pre = c => log[j].res = 0
        /\ ret = 0
        /\ cnt.update = i

\* A rank-2 shape constant given to dyn.reshape.
C6_Witness ==
  /\ pc = "failed"
  /\ err \in RankChecks
  /\ \E c \in Graph(PassInput) :
       BadRank(c) /\ heap[c].op = dyn_reshape_op_ /\ Param(c).ndim = 2

\* C7: a pass over a function that holds a dyn.topk call whose argument 1 is
\* a Constant that is not 0-dimensional ends in a failed CHECK, and no
\* static topk call is made from that constant.
C7_TopKRankRejected ==
  PassRan =>
    \A c \in Graph(PassInput) :
      (Eligible(c) /\ heap[c].op = dyn_topk_op_ /\ Param(c).ndim # 0) =>
        /\ pc = "failed"
        /\ c \notin DOMAIN memo

\* C8: an error raised by type inference or constant folding leaves the
\* driver at once and as it was raised: the failing step changes neither the
\* module nor the result, no pass and no write-back follows it in the round
\* (the counts of the steps run show it), and no step at all follows it.
C8_CollaboratorFailurePropagated ==
  /\ [][pc # "failed"]_vars
  /\ [](err \in CollaboratorErrors =>
          /\ pc = "failed"
          /\ ret = 0
          /\ cnt.infer = i + 1
          /\ cnt.fold = (IF err = "FoldError" THEN i + 1 ELSE i)
          /\ cnt.mutate = i
          /\ cnt.update = i)
  /\ [][(err' \in CollaboratorErrors) =>
          (modules' = modules /\ m' = m /\ expr' = expr /\ i' = i /\ heap' = heap)]_vars

\* Constant folding fails in a later round, after a write-back.
C8_Witness ==
  pc = "failed" /\ err = "FoldError" /\ i > 0 /\ cnt.update = i /\ cnt.fold = i + 1

\* C9: the Function a pass returns for a top-level Function with a declared
\* return type has no declared return type, and its parameters, body, type
\* parameters and attributes are those of the rewritten function.
C9_ReturnTypeCleared ==
  (pc = "update" /\ heap[PassInput].ret_type # Null) =>
    /\ Len(fnlog) > 0
    /\ fnlog[Len(fnlog)].pre = PassInput
    /\ fnlog[Len(fnlog)].res = expr
    /\ heap[expr].kind = "Function"
    /\ heap[expr].ret_type = Null
    /\ heap[expr].params = heap[fnlog[Len(fnlog)].post].params
    /\ heap[expr].body = heap[fnlog[Len(fnlog)].post].body
    /\ heap[expr].type_params = heap[fnlog[Len(fnlog)].post].type_params
    /\ heap[expr].attrs = heap[fnlog[Len(fnlog)].post].attrs
    /\ heap[expr].params = [j \in 1..Len(heap[PassInput].params) |->
                              memo[heap[PassInput].params[j]]]
    /\ heap[expr].body = memo[heap[PassInput].body]

C9_Witness ==
  /\ pc = "update" /\ i > 0
  /\ heap[PassInput].ret_type = "Ty"
  /\ heap[expr].ret_type = Null
  /\ heap[expr].params = heap[PassInput].params

\* What a call computes: the function, its runtime inputs, the value of its
\* shape, repetition or k parameter as a tensor, and its other options.  The
\* dynamic operator takes the parameter from argument 1, and dyn.reshape
\* reads the shape in order; the static operator takes it from its attributes.
StaticName(op) ==
  CASE op = dyn_reshape_op_ -> "reshape" [] op = dyn_tile_op_ -> "tile"
    [] op = dyn_topk_op_ -> "topk"

Options(a) ==
  CASE a.type = "TopKAttrs" -> <<a.axis, a.ret_type, a.is_ascend, a.dtype>>
    [] OTHER -> <<>>

DynamicDenotes(id) ==
  [fn |-> StaticName(heap[id].op), inputs |-> <<heap[id].args[1]>>,
   param |-> Param(id), reverse |-> FALSE, options |-> Options(heap[id].attrs)]

StaticParam(a) ==
  CASE a.type = "ReshapeAttrs" -> NDArray(1, <<Len(a.newshape)>>, a.newshape)
    [] a.type = "TileAttrs" -> NDArray(1, <<Len(a.reps)>>, a.reps)
    [] a.type = "TopKAttrs" -> NDArray(0, <<>>, <<a.k>>)

StaticDenotes(id) ==
  [fn |-> heap[id].op, inputs |-> heap[id].args, param |-> StaticParam(heap[id].attrs),
   reverse |-> (heap[id].attrs.type = "ReshapeAttrs" /\ heap[id].attrs.reverse),
   options |-> Options(heap[id].attrs)]

\* The dynamic call is defined: its parameter has the rank the operator asks.
DynamicDefined(id) ==
  /\ Eligible(id)
  /\ Param(id).ndim = (IF heap[id].op = dyn_topk_op_ THEN 0 ELSE 1)

Fired(e) == e.res # 0 /\ e.res # e.post

\* C10: whenever a rule replaces a dynamic call that is defined, the static
\* call computes the same function of the same runtime inputs, with the same
\* parameter value (as a tensor, shape and elements) and the same options.
C10_EquivalencePreserved ==
  PassRan =>
    \A j \in 1..Len(log) :
      (Fired(log[j]) /\ DynamicDefined(log[j].post)) =>
        StaticDenotes(log[j].res) = DynamicDenotes(log[j].post)

C10_Witness ==
  /\ pc = "update"
  /\ \E j \in 1..Len(log) :
       /\ Fired(log[j]) /\ DynamicDefined(log[j].post)
       /\ heap[log[j].post].op = dyn_topk_op_
       /\ heap[log[j].res].attrs.k = Param(log[j].post).vals[1]
       /\ heap[log[j].res].attrs.is_ascend

\* The calls of Rewrite_ in the last pass on which the rule of op fired.
FiredOn(op) == {j \in 1..Len(log) : Fired(log[j]) /\ heap[log[j].post].op = op}

\* C11: when the dyn.topk rule fires, the attributes of the new topk call
\* are TopKAttrs whose axis, ret_type, is_ascend and dtype are those of the
\* dynamic call's attributes, and whose k is the value of the constant
\* argument when that is a scalar.
C11_TopKAttrsCarriedOver ==
  PassRan =>
    \A j \in FiredOn(dyn_topk_op_) :
      /\ heap[log[j].res].op = "topk"
      /\ heap[log[j].res].attrs.type = "TopKAttrs"
      /\ heap[log[j].res].attrs.axis = heap[log[j].post].attrs.axis
      /\ heap[log[j].res].attrs.ret_type = heap[log[j].post].attrs.ret_type
      /\ heap[log[j].res].attrs.is_ascend = heap[log[j].post].attrs.is_ascend
      /\ heap[log[j].res].attrs.dtype = heap[log[j].post].attrs.dtype
      /\ Param(log[j].post).ndim = 0 =>
            heap[log[j].res].attrs.k = Param(log[j].post).vals[1]

\* Options that are not the defaults (axis 1, values only, ascending, int64)
\* carried over with the scalar k = 2.
C11_Witness ==
  /\ pc = "update"
  /\ \E j \in FiredOn(dyn_topk_op_) :
       /\ Param(log[j].post) = Scalar
       /\ heap[log[j].post].attrs = TopKAttrs(0, 1, "values", TRUE, "int64")
       /\ heap[log[j].res].attrs = TopKAttrs(2, 1, "values", TRUE, "int64")

\* The sequence s without its element k.
Without(s, k) == [j \in 1..(Len(s) - 1) |-> IF j < k THEN s[j] ELSE s[j + 1]]

ChildrenKept(n) == \A c \in Children(heap[n]) : memo[c] = c

RuleFiredOn(n) == \E j \in 1..Len(log) : log[j].pre = n /\ Fired(log[j])

\* C13: a pass returns, for every node whose children it left unchanged and
\* on which no rule fired, that very node; a pass in which no rule fires
\* returns the function it was given.
C13_IdentityPreserved ==
  pc = "update" =>
    /\ \A n \in Graph(PassInput) :
         (ChildrenKept(n) /\ ~RuleFiredOn(n)) => memo[n] = n
    /\ (\A j \in 1..Len(log) : ~Fired(log[j])) => expr = PassInput

\* A call of a rule target, with a Constant argument 1, whose attributes are
\* not of the kind the operator is built with.
WrongAttrs(c) == Eligible(c) /\ heap[c].attrs.type # DynAttrs(heap[c].op).type

\* C14: a pass over a function that holds a call of dyn.reshape, dyn.tile or
\* dyn.topk on a Constant, with its attributes absent or of the wrong kind,
\* ends in a failed CHECK, and no static call is made from that call.
C14_MissingAttrsFatal ==
  PassRan =>
    \A c \in Graph(PassInput) :
      WrongAttrs(c) =>
        /\ pc = "failed"
        /\ c \notin DOMAIN memo

Steps(a, b, c, d) == [infer |-> a, fold |-> b, mutate |-> c, update |-> d]

\* The steps run so far, by the statement the driver is at in round i + 1.
InOrder ==
  CASE pc = "infer" -> cnt = Steps(i, i, i, i)
    [] pc = "fold" -> cnt = Steps(i + 1, i, i, i)
    [] pc = "mutate" -> cnt = Steps(i + 1, i + 1, i, i)
    [] pc = "update" -> cnt = Steps(i + 1, i + 1, i + 1, i)
    [] pc = "done" -> cnt = Steps(i, i, i, i)
    [] OTHER -> TRUE

\* The function the pass is about to be applied to is inferred and folded.
InferredAndFolded ==
  /\ heap[modules[m][gv]].ret_type # Null
  /\ \A n \in Graph(modules[m][gv]) : ~CanFold(n)

\* A pass that returns was applied to the function the module holds, with a
\* memo table of its own: the table holds the nodes of that function and no
\* other, and Rewrite_ was called on every call of that function, also on
\* those an earlier round visited.
FreshPass ==
  (pc = "mutate" /\ pc' = "update") =>
    /\ DOMAIN memo' = Graph(modules[m][gv])
    /\ expr' = memo'[modules[m][gv]]
    /\ \A n \in Graph(modules[m][gv]) :
         IsCall(n) => \E j \in 1..Len(log') : log'[j].pre = n

\* C15: in every round type inference runs first, then constant folding,
\* then one mutation pass over the target function of the inferred and
\* folded module, then the write-back, no step skipped or out of order; and
\* the pass of each round starts from an empty memo table.
C15_StepOrder ==
  /\ [](InOrder /\ (pc = "mutate" => InferredAndFolded))
  /\ [][FreshPass]_vars
  /\ [][pc' = CASE pc = "entry" -> IF err' = Null THEN "infer" ELSE "failed"
                 [] pc = "infer" -> IF err' = Null THEN "fold" ELSE "failed"
                 [] pc = "fold" -> IF err' = Null THEN "mutate" ELSE "failed"
                 [] pc = "mutate" -> IF err' = Null THEN "update" ELSE "failed"
                 [] pc = "update" -> IF pc' = "done" THEN "done" ELSE "infer"
                 [] OTHER -> pc]_vars

\* A later round visits again a call the round before visited and kept.
C15_Witness ==
  /\ pc = "update" /\ i >= 1
  /\ cnt = Steps(i + 1, i + 1, i + 1, i)
  /\ \E j \in 1..Len(log) : log[j].pre = heap[pre].body /\ log[j].res = log[j].pre
  /\ heap[pre].body = heap[PassInput].body

\* C16: the driver writes into its module in the write-back step of a round
\* and in no other step of it, once, under gv, which is the same identifier
\* in every round; the write binds gv to the result of the pass, leaves every
\* other binding as it was and leaves the set of identifiers as it was.
C16_WriteBackFrame ==
  /\ [][pc = "update" =>
          /\ m' = m
          /\ cnt'.update = cnt.update + 1
          /\ modules'[m][gv] = expr
          /\ DOMAIN modules'[m] = DOMAIN modules[m]
          /\ \A g \in DOMAIN modules[m] \ {gv} : modules'[m][g] = modules[m][g]
          /\ \A k \in DOMAIN modules \ {m} : modules'[k] = modules[k]]_vars
  /\ [][(pc \in {"entry", "mutate"}) => (modules' = modules)]_vars
  /\ [][(pc \in {"infer", "fold"}) =>
          \A k \in DOMAIN modules \cap DOMAIN modules' : modules'[k] = modules[k]]_vars
  /\ [][pc # "entry" => (gv' = gv)]_vars
  /\ [](pc \in {"infer", "done"} => cnt.update = i)

\* After the write-back of a later round: f is bound to the new function, g
\* to the function it was bound to.
C16_Witness ==
  /\ pc = "infer" /\ i >= 2
  /\ gv = "f"
  /\ modules[m]["f"] = expr /\ expr # f
  /\ modules[m]["g"] = modules[mod]["g"]
  /\ DOMAIN modules[m] = {"f", "g"}

\* The calls of Rewrite_ made for the call node c, by their place in the log.
HookCalls(c) == {j \in 1..Len(log) : log[j].pre = c}

\* The references to nodes other than n that lead to node n in the function
\* the pass was applied to.
Parents(n) == {p \in Graph(PassInput) \ {n} : n \in Children(heap[p])}

ArgsOf(j) == heap[log[j].pre].args

\* C17: in a pass that returned, Rewrite_ was called exactly once for each
\* call node of the function, whatever the number of its parents; when it
\* was called for a call, it had been called before for every argument that
\* is a call, and the call it was given holds the rewritten arguments; and
\* two parents of one node were given the same rewritten node for it.
C17_MemoizedPostOrder ==
  pc = "update" =>
    /\ \A c \in Graph(PassInput) : IsCall(c) => Cardinality(HookCalls(c)) = 1
    /\ \A j \in 1..Len(log) :
         /\ log[j].pre \in Graph(PassInput)
         /\ \A k \in 1..Len(ArgsOf(j)) :
              /\ ArgsOf(j)[k] \in DOMAIN memo
              /\ heap[log[j].post].args[k] = memo[ArgsOf(j)[k]]
              /\ IsCall(ArgsOf(j)[k]) => \E a \in 1..(j - 1) : log[a].pre = ArgsOf(j)[k]
    /\ \A j1, j2 \in 1..Len(log) :
         \A k1 \in 1..Len(ArgsOf(j1)), k2 \in 1..Len(ArgsOf(j2)) :
           ArgsOf(j1)[k1] = ArgsOf(j2)[k2] =>
             heap[log[j1].post].args[k1] = heap[log[j2].post].args[k2]

\* A dyn.tile call with two parents, rewritten once, and both parents given
\* the static call.
C17_Witness ==
  /\ pc = "update"
  /\ \E c \in Graph(PassInput) :
       /\ Eligible(c)
       /\ Cardinality(Parents(c)) = 2
       /\ Cardinality(HookCalls(c)) = 1
       /\ memo[c] # c
       /\ \A p \in Parents(c) : memo[c] \in Children(heap[memo[p]])

IsFunction(n) == heap[n].kind = "Function"

\* C18: a pass that returns has replaced every Function node of the function
\* it was applied to, the nested ones and those with no declared return
\* type too, by a Function node that did not exist before the pass and has
\* no return type; so what the pass returns is never the node it was given.
C18_EveryFunctionRebuilt ==
  [][(pc = "mutate" /\ pc' = "update") =>
       /\ \A n \in Graph(modules[m][gv]) :
            IsFunction(n) =>
              /\ memo'[n] \notin DOMAIN heap
              /\ memo'[n] # n
              /\ heap'[memo'[n]].kind = "Function"
              /\ heap'[memo'[n]].ret_type = Null
              /\ \E j \in 1..Len(fnlog') : fnlog'[j].pre = n /\ fnlog'[j].res = memo'[n]
       /\ expr' # modules[m][gv]
       /\ expr' \notin DOMAIN heap]_vars

\* A nested function with no declared return type, in a pass in which no
\* rule fired: it is built anew all the same.
C18_Witness ==
  /\ pc = "update"
  /\ \A j \in 1..Len(log) : ~Fired(log[j])
  /\ \E n \in Graph(PassInput) \ {PassInput} :
       /\ IsFunction(n)
       /\ heap[n].ret_type = Null
       /\ memo[n] # n
       /\ heap[memo[n]].body = heap[n].body
       /\ heap[memo[n]].ret_type = Null

\* C19: the function a pass returns holds no call of dyn.reshape, dyn.tile
\* or dyn.topk whose argument 1 is a Constant, and argument 0 of every static
\* call a rule made is the rewritten form of argument 0 of the original call.
C19_AllEligibleSpecialized ==
  pc = "update" =>
    /\ \A n \in Graph(expr) : ~Eligible(n)
    /\ \A c \in Graph(PassInput) :
         Eligible(c) => (memo[c] # c /\ heap[memo[c]].op = StaticName(heap[c].op))
    /\ \A j \in 1..Len(log) :
         Fired(log[j]) => heap[log[j].res].args[1] = memo[heap[log[j].pre].args[1]]

\* An eligible call that is argument 0 of another eligible call: both are
\* specialized by the one pass.
C19_Witness ==
  /\ pc = "update"
  /\ \E j \in 1..Len(log) :
       /\ Fired(log[j])
       /\ Eligible(log[j].pre)
       /\ Eligible(heap[log[j].pre].args[1])
       /\ heap[log[j].res].op = "tile"
       /\ heap[heap[log[j].res].args[1]].op = "reshape"
       /\ log[j].res \in Graph(expr)

\* The function given to the driver is bound to no identifier of the module.
NotBound == \A g \in DOMAIN modules[m] : modules[m][g] # f

\* C20: when the driver returns, the function its module holds under gv is
\* the node it returns, the one of the last write-back; and called with a
\* function the module binds to no identifier, it fails at once, before any
\* pass has run, with the module and the heap as they were.
C20_ReturnedIsStored ==
  /\ [](pc = "done" =>
          /\ i >= 1 /\ cnt.update = i
          /\ ret = expr
          /\ modules[m][gv] = ret
          /\ heap[ret].kind = "Function")
  /\ []((pc = "infer" /\ i >= 1) => modules[m][gv] = expr)
  /\ [][(pc = "entry" /\ NotBound) =>
          /\ pc' = "failed"
          /\ err' = "KeyError"
          /\ modules' = modules /\ m' = m /\ heap' = heap
          /\ cnt' = Steps(0, 0, 0, 0)
          /\ ret' = 0 /\ i' = 0]_vars
  /\ []((pc = "entry" /\ ~NotBound) => ENABLED (Start /\ pc' = "infer"))
  /\ [](err = "KeyError" => (pc = "failed" /\ cnt = Steps(0, 0, 0, 0)))

\* The return after the last round: the driver's module holds the returned
\* function under f, the caller's module object still holds the one given.
C20_Witness ==
  /\ pc = "done" /\ i = MaxRounds
  /\ gv = "f"
  /\ modules[m]["f"] = ret
  /\ ret # f
  /\ modules[mod]["f"] = f

====
